---- MODULE Spec2Model ----
(***************************************************************************)
(* The chat store of the medical-network client (src/stores/useChatStore)  *)
(* and the backend objects it talks to (tables, triggers, functions and    *)
(* policies of the SQL migrations), as one state machine.                  *)
(*                                                                         *)
(* Every async store operation is a task; an await is a step boundary: a   *)
(* step evaluates the awaited backend request and runs the continuation up *)
(* to the next await, so other tasks interleave exactly at the awaits.     *)
(* archiveChat, unarchiveChat, muteChat, unmuteChat and deleteChat are one *)
(* step each: their update of store.chats is a function of the state at   *)
(* the time it runs. Requests are answered; a request fails only where the *)
(* backend's constraints and policies reject it.                           *)
(*                                                                         *)
(* The specifications share the variables and differ in what the users do: *)
(* SpecStart (starting direct chats), SpecDir (the directory while         *)
(* messages arrive), SpecFlags (editing the directory), SpecOpen (opening  *)
(* conversations), SpecLive (the chat screen).                             *)
(***************************************************************************)
EXTENDS Integers, Sequences, FiniteSets, TLC

\* ---------------------------------------------------------------- bounds
MaxConvs == 2
MaxMsgs == 2
MaxTime == 1
MaxTasks == 2
MaxSubs == 2
MaxSends == 2
MaxMembers == 2

\* ------------------------------------------------------------- constants
Users == {"A", "B"}
NoUser == "none"
Null == 0
Undefined == "undefined"
NoError == "null"
PGRST116 == "PGRST116"
Slots == 1..MaxTasks
ConvIds == 1..MaxConvs

VARIABLES
  authUser,      \* supabase.auth: the signed-in user, or NoUser
  dbChats,       \* table chats
  dbGroups,      \* table chat_groups (with its chat_group_members rows)
  dbMsgs,        \* table chat_messages
  now,           \* the backend clock, now()
  nextConv,      \* gen_random_uuid() for chats / chat_groups
  nextMsg,       \* gen_random_uuid() for chat_messages
  channels,      \* realtime subscriptions the backend holds
  events,        \* INSERT notifications in flight, per subscription
  nextSid,       \* identity of the next subscription object
  chats,         \* store.chats
  messages,      \* store.messages
  currentChat,   \* store.currentChat
  isLoading,     \* store.isLoading
  error,         \* store.error
  subscriptions, \* store.subscriptions
  tasks,         \* the async calls in flight
  nextBody,      \* the next message body typed by the user
  ret            \* what startChat or createGroupChat last returned

backend == <<dbChats, dbGroups, dbMsgs, now, nextConv, nextMsg>>
realtime == <<channels, events, nextSid>>
store == <<chats, messages, currentChat, isLoading, error, subscriptions>>
history == <<ret, nextBody>>
vars == <<authUser, backend, realtime, store, tasks, history>>

\* ---------------------------------------------------------------- helpers
Range(s) == {s[i] : i \in DOMAIN s}

Perms(S) == {s \in [1..Cardinality(S) -> S] : Range(s) = S}

\* The orders in which `.order(key, { ascending: false })` may return the rows
\* S: descending by key, rows with equal keys in any order.
OrderDesc(S, key) ==
  {s \in Perms(S) : \A i \in 1..(Len(s) - 1) : s[i][key] >= s[i + 1][key]}

Field(r, f) == IF f \in DOMAIN r THEN r[f] ELSE Undefined

LastMessageAt == "last_message_at"
CreatedAt == "created_at"

\* ------------------------------------------------------- backend: schema
\* chats: UNIQUE(user_id, doctor_id), defaults of the columns.
NewChatRow(id, u, d) ==
  [id |-> id, user_id |-> u, doctor_id |-> d, is_archived |-> FALSE,
   is_muted |-> FALSE, last_message_at |-> now, unread_count |-> 0]

UniqueViolation(u, d) ==
  \E c \in dbChats : c.user_id = u /\ c.doctor_id = d

\* Policy "Users can view their chats": auth.uid() IN (user_id, doctor_id).
ChatVisible(c, uid) == uid \in {c.user_id, c.doctor_id}

\* Policy "Users can view groups they are members of".
GroupVisible(g, uid) == uid \in g.members

\* Policy "Users can send messages": the row's chat exists with the sender a
\* party of it, and the sender is the session's user.
SendPolicy(row, uid) ==
  /\ \E c \in dbChats : c.id = row.chat_id /\ ChatVisible(c, uid)
  /\ uid = row.sender_id

\* Row security is enabled on chats, chat_messages and chat_groups, and the
\* functions and triggers below are SECURITY INVOKER: an UPDATE they issue
\* reaches the rows a policy FOR UPDATE admits for the session's user. chats
\* has "Users can update their chats"; chat_messages and chat_groups have no
\* policy FOR UPDATE at all.
ChatUpdatable(c, uid) == uid \in {c.user_id, c.doctor_id}

AnyoneUpdates(m, uid) == TRUE

MessageUpdatable(m, uid) == FALSE

GroupUpdatable(g, uid) == FALSE

\* Trigger update_chat_on_message, AFTER INSERT ON chat_messages, run for the
\* session that inserts the row.
ChatsOnMessage(row, uid) ==
  IF row.chat_id # Null
  THEN {IF c.id = row.chat_id /\ ChatUpdatable(c, uid)
        THEN [c EXCEPT !.last_message_at = row.created_at,
                       !.unread_count = c.unread_count + 1]
        ELSE c : c \in dbChats}
  ELSE dbChats

GroupsOnMessage(row, uid) ==
  IF row.chat_id = Null /\ row.group_id # Null
  THEN {IF g.id = row.group_id /\ GroupUpdatable(g, uid)
        THEN [g EXCEPT !.last_message_at = row.created_at,
                       !.unread_count = g.unread_count + 1]
        ELSE g : g \in dbGroups}
  ELSE dbGroups

\* Function mark_messages_as_read(p_chat_id uuid, p_group_id uuid).
MarkMsgs(msgs, uid, p_chat_id, p_group_id) ==
  IF p_chat_id # Null
  THEN {IF m.chat_id = p_chat_id /\ ~m.is_read /\ MessageUpdatable(m, uid)
        THEN [m EXCEPT !.is_read = TRUE] ELSE m : m \in msgs}
  ELSE IF p_group_id # Null
  THEN {IF m.group_id = p_group_id /\ ~m.is_read /\ MessageUpdatable(m, uid)
        THEN [m EXCEPT !.is_read = TRUE] ELSE m : m \in msgs}
  ELSE msgs

DecrementChats(cs, uid, p_chat_id, p_group_id) ==
  IF p_chat_id # Null
  THEN {IF c.id = p_chat_id /\ ChatUpdatable(c, uid)
        THEN [c EXCEPT !.unread_count = c.unread_count - 1] ELSE c : c \in cs}
  ELSE cs

MarkChats(cs, uid, p_chat_id, p_group_id) ==
  IF p_chat_id # Null
  THEN {IF c.id = p_chat_id /\ ChatUpdatable(c, uid)
        THEN [c EXCEPT !.unread_count = 0] ELSE c : c \in cs}
  ELSE cs

MarkGroups(gs, uid, p_chat_id, p_group_id) ==
  IF p_chat_id = Null /\ p_group_id # Null
  THEN {IF g.id = p_group_id /\ GroupUpdatable(g, uid)
        THEN [g EXCEPT !.unread_count = 0] ELSE g : g \in gs}
  ELSE gs

\* Function mark_messages_as_read(p_chat_id uuid), the overload a request
\* carrying p_chat_id alone resolves to.
MarkMsgs1(msgs, uid, p_chat_id) ==
  {IF m.chat_id = p_chat_id /\ ~m.is_read /\ MessageUpdatable(m, uid)
   THEN [m EXCEPT !.is_read = TRUE] ELSE m : m \in msgs}

MarkChats1(cs, uid, p_chat_id) ==
  {IF c.id = p_chat_id /\ ChatUpdatable(c, uid)
   THEN [c EXCEPT !.unread_count = 0] ELSE c : c \in cs}

\* --------------------------------------------------------- tasks, history
NoChat == [id |-> Null]
NoMsg == [id |-> Null]

IdleTask ==
  [op |-> "idle", pc |-> "", id |-> Null, peer |-> NoUser, body |-> "",
   user |-> NoUser, direct |-> <<>>, snap |-> {}, val |-> Null,
   msg |-> NoMsg, chat |-> NoChat, direct_found |-> FALSE,
   group_found |-> FALSE, seen |-> {}, viewer |-> NoUser,
   direct_error |-> FALSE]

NoRet == [status |-> "none", user |-> NoUser, peer |-> NoUser, val |-> Null]

FreeSlot(t) == tasks[t].op = "idle" /\ \A u \in Slots : u < t => tasks[u].op # "idle"

Idle == \A t \in Slots : tasks[t].op = "idle"

\* ------------------------------------------------------------ fetchChats
\* The rows of the direct-chat query, lines 81-97: the chats of uid, each
\* with its embedded chat_messages(content, created_at, is_read).
Embedded(c, mo) ==
  LET mine == SelectSeq(mo, LAMBDA m : m.chat_id = c.id)
  IN [i \in DOMAIN mine |->
        [content |-> mine[i].content, created_at |-> mine[i].created_at,
         is_read |-> mine[i].is_read]]

DirectRows(uid) == {c \in dbChats : c.user_id = uid \/ c.doctor_id = uid}

DirectQuery(uid) ==
  {[i \in DOMAIN s |-> [row |-> s[i], messages |-> Embedded(s[i], mo)]] :
     s \in OrderDesc(DirectRows(uid), LastMessageAt), mo \in Perms(dbMsgs)}

\* The rows of the group query, lines 100-112, under the select policy.
GroupQuery(uid) ==
  OrderDesc({g \in dbGroups : GroupVisible(g, uid)}, LastMessageAt)

\* lines 115-123
ProcessDirect(r, uid) ==
  [id |-> r.row.id, type |-> "direct",
   is_archived |-> r.row.is_archived, is_muted |-> r.row.is_muted,
   last_message_at |-> r.row.last_message_at,
   last_message |-> IF r.messages = <<>> THEN Undefined ELSE r.messages[1].content,
   unread_count |->
     Len(SelectSeq(r.messages,
                   LAMBDA m : ~m.is_read /\ Field(m, "sender_id") # uid))]

\* lines 125-129
ProcessGroup(g) ==
  [id |-> g.id, type |-> "group",
   is_archived |-> g.is_archived, is_muted |-> g.is_muted,
   last_message_at |-> g.last_message_at,
   last_message |-> Undefined,
   unread_count |-> g.unread_count]

\* Array.prototype.sort with (a, b) => time(b) - time(a): a stable sort,
\* descending by last_message_at.
RECURSIVE InsertByTime(_, _)
InsertByTime(x, s) ==
  IF s = <<>> THEN <<x>>
  ELSE IF Head(s).last_message_at >= x.last_message_at
       THEN <<Head(s)>> \o InsertByTime(x, Tail(s))
       ELSE <<x>> \o s

RECURSIVE SortFrom(_, _)
SortFrom(s, acc) ==
  IF s = <<>> THEN acc ELSE SortFrom(Tail(s), InsertByTime(Head(s), acc))

Unsorted(s) == s

SortChats(s) == SortFrom(s, <<>>)

\* lines 131-135
MergeChats(direct, groups, uid) ==
  SortChats([i \in DOMAIN direct |-> ProcessDirect(direct[i], uid)]
            \o [i \in DOMAIN groups |-> ProcessGroup(groups[i])])

\* ------------------------------------------------------- common task steps
\* The call of task t is over: its promise resolves or rejects.
Finish(t) == tasks' = [tasks EXCEPT ![t] = IdleTask]

\* What the caller of startChat or createGroupChat gets: the id, or a
\* rejection.
Returned(t, status) ==
  IF tasks[t].op \in {"startChat", "createGroupChat"}
  THEN [status |-> status, user |-> tasks[t].user, peer |-> tasks[t].peer,
        val |-> IF status = "ok" THEN tasks[t].val ELSE Null]
  ELSE ret

Return(t, status) ==
  /\ Finish(t)
  /\ ret' = Returned(t, status)

\* useAuthStore.signIn / signOut: the session the backend client holds.
SignIn(u) ==
  /\ authUser = NoUser
  /\ authUser' = u
  /\ UNCHANGED <<backend, realtime, store, tasks, history>>

SignOut ==
  /\ authUser # NoUser
  /\ authUser' = NoUser
  /\ UNCHANGED <<backend, realtime, store, tasks, history>>

\* ------------------------------------------------------------ fetchChats
\* line 75, up to the await of getUser.
FetchChats ==
  \E t \in Slots :
    /\ FreeSlot(t)
    /\ tasks' = [tasks EXCEPT ![t] =
                   [IdleTask EXCEPT !.op = "fetchChats", !.pc = "fc_direct"]]
    /\ isLoading' = TRUE
    /\ error' = NoError
    /\ UNCHANGED <<authUser, backend, realtime, chats, messages, currentChat,
                   subscriptions, history>>

\* lines 77-97: getUser resolves; without a user the call throws, the catch
\* sets the error and the finally clears isLoading; with one the direct
\* chats are read. Runs for a fetchChats call and for the one nested in
\* startChat, fetchMessages, sendMessage and the live handler.
FcDirect(t) ==
  /\ tasks[t].pc = "fc_direct"
  /\ IF authUser = NoUser
     THEN /\ error' = "Not authenticated"
          /\ isLoading' = FALSE
          /\ Return(t, "ok")
          /\ UNCHANGED <<authUser, backend, realtime, chats, messages,
                         currentChat, subscriptions, nextBody>>
     ELSE /\ \E rows \in DirectQuery(authUser) :
               tasks' = [tasks EXCEPT ![t].pc = "fc_group",
                                      ![t].user = authUser,
                                      ![t].direct = rows,
                                      ![t].snap = dbMsgs]
          /\ UNCHANGED <<authUser, backend, realtime, store, history>>

\* lines 100-140: the groups are read, both lists are processed, merged and
\* sorted into store.chats, the finally clears isLoading, the call returns.
FcGroup(t) ==
  /\ tasks[t].pc = "fc_group"
  /\ \E groups \in GroupQuery(authUser) :
       chats' = MergeChats(tasks[t].direct, groups, tasks[t].user)
  /\ isLoading' = FALSE
  /\ Return(t, "ok")
  /\ UNCHANGED <<authUser, backend, realtime, messages, currentChat, error,
                 subscriptions, nextBody>>

\* lines 81-97 when the request fails (the network, a timeout): the client
\* answers { data: null, error }, of which line 81 takes only data, and
\* line 115 goes on with (directChats || []).
FcDirectFails(t) ==
  /\ tasks[t].pc = "fc_direct"
  /\ authUser # NoUser
  /\ tasks' = [tasks EXCEPT ![t].pc = "fc_group",
                            ![t].user = authUser,
                            ![t].direct = <<>>,
                            ![t].direct_error = TRUE]
  /\ UNCHANGED <<authUser, backend, realtime, store, history>>

\* lines 100-140 when the request of the groups fails: line 100 takes only
\* data, line 125 goes on with (groupChats || []).
FcGroupFails(t) ==
  /\ tasks[t].pc = "fc_group"
  /\ chats' = MergeChats(tasks[t].direct, <<>>, tasks[t].user)
  /\ isLoading' = FALSE
  /\ Return(t, "ok")
  /\ UNCHANGED <<authUser, backend, realtime, messages, currentChat, error,
                 subscriptions, nextBody>>

\* ------------------------------------------------------------- startChat
\* lines 149-154: the chats of uid whose doctor_id (user_id when uid starts
\* a chat with themself) is doctorId.
ExistingChats(uid, doctorId) ==
  {c \in dbChats :
     /\ (c.user_id = uid \/ c.doctor_id = uid)
     /\ IF uid = doctorId THEN c.user_id = doctorId ELSE c.doctor_id = doctorId}

\* .single(): the row when exactly one matches, else no data and PGRST116.
Single(rows) ==
  IF Cardinality(rows) = 1
  THEN [data |-> CHOOSE r \in rows : TRUE, code |-> NoError]
  ELSE [data |-> NoChat, code |-> PGRST116]

StartChatsInFlight == Cardinality({t \in Slots : tasks[t].op = "startChat"})

\* lines 143-160: getUser, then the lookup; an existing chat is returned.
StartChat(doctorId) ==
  \E t \in Slots :
    /\ FreeSlot(t)
    /\ nextConv + StartChatsInFlight <= MaxConvs
    /\ LET found == Single(ExistingChats(authUser, doctorId))
           call == [IdleTask EXCEPT !.op = "startChat", !.peer = doctorId,
                                    !.user = authUser]
       IN IF authUser = NoUser
          THEN /\ error' = "Not authenticated"
               /\ ret' = [NoRet EXCEPT !.status = "rejected", !.peer = doctorId]
               /\ UNCHANGED tasks
          ELSE IF found.data # NoChat
          THEN /\ ret' = [NoRet EXCEPT !.status = "ok",
                                       !.peer = doctorId, !.user = authUser,
                                       !.val = found.data.id]
               /\ UNCHANGED <<tasks, error>>
          ELSE /\ tasks' = [tasks EXCEPT ![t] = [call EXCEPT !.pc = "sc_insert"]]
               /\ UNCHANGED <<ret, error>>
    /\ UNCHANGED <<authUser, backend, realtime, chats, messages, currentChat,
                   isLoading, subscriptions, nextBody>>

\* lines 163-175: the insert; a rejected insert (the unique constraint, the
\* insert policy) sets the error and rejects, else fetchChats is called.
StartChatInsert(t) ==
  /\ tasks[t].pc = "sc_insert"
  /\ IF UniqueViolation(tasks[t].user, tasks[t].peer)
        \/ authUser \notin {tasks[t].user, tasks[t].peer}
     THEN /\ error' = "insert rejected"
          /\ Return(t, "rejected")
          /\ UNCHANGED <<backend, isLoading>>
     ELSE /\ dbChats' = dbChats \cup
                          {NewChatRow(nextConv, tasks[t].user, tasks[t].peer)}
          /\ nextConv' = nextConv + 1
          /\ tasks' = [tasks EXCEPT ![t].val = nextConv, ![t].pc = "fc_direct"]
          /\ isLoading' = TRUE
          /\ error' = NoError
          /\ UNCHANGED <<dbGroups, dbMsgs, now, nextMsg, ret>>
  /\ UNCHANGED <<authUser, realtime, chats, messages, currentChat,
                 subscriptions, nextBody>>

\* -------------------------------------------------------- createGroupChat
\* The arrays of member ids a caller passes.
MemberLists == UNION {[1..n -> Users] : n \in 0..MaxMembers}

\* A chat_groups row of which every user is a member.
GroupRow(id) ==
  [id |-> id, members |-> Users, is_archived |-> FALSE, is_muted |-> FALSE,
   last_message_at |-> 0, unread_count |-> 0]

\* lines 190-195: the chat_groups row as inserted, no membership row of it
\* existing yet.
NewGroupRow(id) == [GroupRow(id) EXCEPT !.members = {}]

\* .insert(...).select().single(), lines 190-197, is an INSERT ... RETURNING:
\* row security admits it when the new row passes the insert policy
\* (created_by is the session's user, as line 194 sets it) and, for the
\* returned representation, the select policy of chat_groups.
AlwaysReturnable(row, uid) == TRUE

GroupReturnable(row, uid) == GroupVisible(row, uid)

\* lines 202-210: one chat_group_members row for each distinct id of
\* [...memberIds, user.id], the caller as admin and the others as members.
MemberRows(groupId, memberIds, uid) ==
  {[group_id |-> groupId, user_id |-> m,
    role |-> IF m = uid THEN "admin" ELSE "member"] :
     m \in Range(memberIds) \cup {uid}}

\* Policy "Users can join groups": WITH CHECK (user_id = auth.uid()), for
\* every row of the insert.
MembersInsertable(rows, uid) == \A r \in rows : r.user_id = uid

\* lines 184-223, up to the call of fetchChats. Without a user the call
\* throws at line 187. The group insert answered with an error, line 199
\* throws and no row is left. The membership insert answered with an error,
\* line 213 throws, the chat_groups row staying as inserted. In each case
\* the catch sets the error and the call rejects. Otherwise fetchChats is
\* called, and its end returns the group's id.
CreateGroupChat(memberIds) ==
  LET group == NewGroupRow(nextConv)
      rows == MemberRows(nextConv, memberIds, authUser)
  IN /\ IF authUser = NoUser \/ ~GroupReturnable(group, authUser)
        THEN /\ error' = IF authUser = NoUser THEN "Not authenticated"
                         ELSE "new row violates row-level security policy"
             /\ ret' = [NoRet EXCEPT !.status = "rejected", !.user = authUser]
             /\ UNCHANGED <<dbGroups, nextConv, tasks, isLoading>>
        ELSE IF ~MembersInsertable(rows, authUser)
        THEN /\ nextConv <= MaxConvs
             /\ dbGroups' = dbGroups \cup {group}
             /\ nextConv' = nextConv + 1
             /\ error' = "new row violates row-level security policy"
             /\ ret' = [NoRet EXCEPT !.status = "rejected", !.user = authUser]
             /\ UNCHANGED <<tasks, isLoading>>
        ELSE /\ nextConv <= MaxConvs
             /\ dbGroups' = dbGroups \cup
                  {[group EXCEPT !.members = {r.user_id : r \in rows}]}
             /\ nextConv' = nextConv + 1
             /\ \E t \in Slots :
                  /\ FreeSlot(t)
                  /\ tasks' = [tasks EXCEPT ![t] =
                       [IdleTask EXCEPT !.op = "createGroupChat",
                                        !.pc = "fc_direct",
                                        !.user = authUser,
                                        !.val = nextConv]]
             /\ isLoading' = TRUE
             /\ error' = NoError
             /\ UNCHANGED ret
     /\ UNCHANGED <<authUser, dbChats, dbMsgs, now, nextMsg, realtime, chats,
                    messages, currentChat, subscriptions, nextBody>>

\* ------------------------------------- archive / mute / delete, lines 225-316
\* .from('chats').update(...).eq('id', chatId) under the update policy: the
\* rows of table chats with that id which the session's user is a party of.
UpdateChats(chatId, field, value) ==
  {IF c.id = chatId /\ ChatVisible(c, authUser)
   THEN [c EXCEPT ![field] = value] ELSE c : c \in dbChats}

\* state.chats.map(chat => chat.id === chatId ? {...chat, field: value} : chat)
PatchChats(chatId, field, value) ==
  [i \in DOMAIN chats |->
     IF chats[i].id = chatId THEN [chats[i] EXCEPT ![field] = value]
     ELSE chats[i]]

SetFlag(chatId, field, value) ==
  /\ dbChats' = UpdateChats(chatId, field, value)
  /\ chats' = PatchChats(chatId, field, value)
  /\ UNCHANGED <<authUser, dbGroups, dbMsgs, now, nextConv, nextMsg, realtime,
                 messages, currentChat, isLoading, error, subscriptions,
                 tasks, history>>

ArchiveChat(chatId) == SetFlag(chatId, "is_archived", TRUE)

UnarchiveChat(chatId) == SetFlag(chatId, "is_archived", FALSE)

MuteChat(chatId) == SetFlag(chatId, "is_muted", TRUE)

UnmuteChat(chatId) == SetFlag(chatId, "is_muted", FALSE)

\* lines 301-316; chat_messages.chat_id is ON DELETE CASCADE.
DeleteChat(chatId) ==
  LET gone == {c \in dbChats : c.id = chatId /\ ChatVisible(c, authUser)}
  IN /\ dbChats' = dbChats \ gone
     /\ dbMsgs' = {m \in dbMsgs : \A c \in gone : m.chat_id # c.id}
     /\ chats' = SelectSeq(chats, LAMBDA c : c.id # chatId)
     /\ UNCHANGED <<authUser, dbGroups, now, nextConv, nextMsg, realtime,
                    messages, currentChat, isLoading, error, subscriptions,
                    tasks, history>>

\* `if (error) throw error` stands before the set(...) of each of the five
\* operations (lines 232-238, 308-312): the directory after a response.
SetAnyway(failed, next) == next

AfterResponse(failed, next) == IF failed THEN chats ELSE next

\* archiveChat, unarchiveChat, muteChat, unmuteChat when the request fails
\* (the network, a timeout): the client answers { error }, line 232 throws
\* and the catch sets the error.
SetFlagFails(chatId, field, value) ==
  /\ chats' = AfterResponse(TRUE, PatchChats(chatId, field, value))
  /\ error' = "request failed"
  /\ UNCHANGED <<authUser, backend, realtime, messages, currentChat,
                 isLoading, subscriptions, tasks, history>>

\* deleteChat when the request fails, lines 301-316.
DeleteChatFails(chatId) ==
  /\ chats' = AfterResponse(TRUE, SelectSeq(chats, LAMBDA c : c.id # chatId))
  /\ error' = "request failed"
  /\ UNCHANGED <<authUser, backend, realtime, messages, currentChat,
                 isLoading, subscriptions, tasks, history>>

\* ------------------------------------------------- the backend's other users
\* A chat_messages row inserted by some session other than this store's
\* sendMessage: defaults of the columns, the insert trigger, and an INSERT
\* notification for every subscription whose filter chat_id=eq.<id> matches.
ReadRow(id, chat_id, group_id, sender, content) ==
  [id |-> id, chat_id |-> chat_id, group_id |-> group_id, sender_id |-> sender,
   content |-> content, created_at |-> now, is_read |-> TRUE]

MessageRow(id, chat_id, group_id, sender, content) ==
  [id |-> id, chat_id |-> chat_id, group_id |-> group_id, sender_id |-> sender,
   content |-> content, created_at |-> now, is_read |-> FALSE]

Notify(row) ==
  events \o
  [i \in 1..Cardinality({ch \in channels : ch.chatId = row.chat_id}) |->
     [sid |-> (CHOOSE s \in Perms({ch.sid : ch \in
                  {x \in channels : x.chatId = row.chat_id}}) : TRUE)[i],
      data |-> row]]

InsertRow(row) ==
  /\ dbMsgs' = dbMsgs \cup {row}
  /\ dbChats' = ChatsOnMessage(row, row.sender_id)
  /\ dbGroups' = GroupsOnMessage(row, row.sender_id)
  /\ nextMsg' = nextMsg + 1
  /\ events' = Notify(row)

\* A session of `sender` other than the store's inserts a message: the row
\* passes the policy "Users can send messages".
PeerInsert(sender, conv) ==
  /\ nextMsg <= MaxMsgs
  /\ SendPolicy(MessageRow(nextMsg, conv, Null, sender, "hi"), sender)
  /\ InsertRow(MessageRow(nextMsg, conv, Null, sender, "hi"))
  /\ UNCHANGED <<authUser, now, nextConv, channels, nextSid, store, tasks,
                 history>>

\* A message of a group, the shape of lines 398-404 for a group conversation
\* (chat_id null, group_id set), inserted by a role that row security does
\* not bind, the insert policy of chat_messages admitting no such row from a
\* client session; the trigger then updates the group.
GroupInsert(sender, group) ==
  /\ nextMsg <= MaxMsgs
  /\ \E g \in dbGroups : g.id = group
  /\ LET row == MessageRow(nextMsg, Null, group, sender, "hi")
     IN /\ dbMsgs' = dbMsgs \cup {row}
        /\ dbGroups' = {IF g.id = group
                        THEN [g EXCEPT !.last_message_at = row.created_at,
                                       !.unread_count = g.unread_count + 1]
                        ELSE g : g \in dbGroups}
        /\ nextMsg' = nextMsg + 1
        /\ events' = Notify(row)
  /\ UNCHANGED <<authUser, dbChats, now, nextConv, channels, nextSid, store,
                 tasks, history>>

Tick ==
  /\ now < MaxTime
  /\ now' = now + 1
  /\ UNCHANGED <<authUser, dbChats, dbGroups, dbMsgs, nextConv, nextMsg,
                 realtime, store, tasks, history>>

\* ------------------------------------------------------- the directory
EmptyStore ==
  /\ chats = <<>>
  /\ messages = <<>>
  /\ currentChat = NoChat
  /\ isLoading = FALSE
  /\ error = NoError
  /\ subscriptions = <<>>
  /\ tasks = [t \in Slots |-> IdleTask]
  /\ ret = NoRet
  /\ nextBody = 1
  /\ channels = {}
  /\ events = <<>>
  /\ nextSid = 1

\* The viewer A is signed in; the backend holds two conversations of A's,
\* a direct chat and a group, or two groups, last active at t1 and t2.
TwoConversations(t1, t2) ==
  \/ /\ dbChats = {[NewChatRow(1, "A", "B") EXCEPT !.last_message_at = t1]}
     /\ dbGroups = {[GroupRow(2) EXCEPT !.last_message_at = t2]}
  \/ /\ dbChats = {}
     /\ dbGroups = {[GroupRow(1) EXCEPT !.last_message_at = t1],
                    [GroupRow(2) EXCEPT !.last_message_at = t2]}

InitDir ==
  /\ EmptyStore
  /\ authUser = "A"
  /\ now = 0
  /\ TwoConversations(0, 0)
  /\ dbMsgs = {}
  /\ nextConv = 3
  /\ nextMsg = 1

\* Listing the directory while other sessions send messages.
NextDir ==
  \/ FetchChats
  \/ \E t \in Slots : FcDirect(t)
  \/ \E t \in Slots : FcGroup(t)
  \/ \E u \in Users, c \in ConvIds : PeerInsert(u, c)
  \/ Tick

SpecDir == InitDir /\ [][NextDir]_vars

\* Listing the directory over a connection that fails at times.
NextFail ==
  \/ FetchChats
  \/ \E t \in Slots : FcDirect(t)
  \/ \E t \in Slots : FcDirectFails(t)
  \/ \E t \in Slots : FcGroup(t)
  \/ \E t \in Slots : FcGroupFails(t)
  \/ \E c \in ConvIds : PeerInsert("B", c)

SpecFail == InitDir /\ [][NextFail]_vars

\* ------------------------------------------------ editing the directory
InitFlags ==
  /\ EmptyStore
  /\ authUser = "A"
  /\ now = MaxTime
  /\ \E t1, t2 \in 0..MaxTime : TwoConversations(t1, t2)
  /\ dbMsgs = {}
  /\ nextConv = 3
  /\ nextMsg = 1

Listed == {chats[i].id : i \in DOMAIN chats}

\* The directory screen: refreshes and edits of the conversations shown,
\* while B sends messages.
NextFlags ==
  \/ FetchChats
  \/ \E t \in Slots : FcDirect(t)
  \/ \E t \in Slots : FcGroup(t)
  \/ \E c \in Listed : ArchiveChat(c)
  \/ \E c \in Listed : UnarchiveChat(c)
  \/ \E c \in Listed : MuteChat(c)
  \/ \E c \in Listed : UnmuteChat(c)
  \/ \E c \in Listed : DeleteChat(c)
  \/ \E c \in ConvIds : PeerInsert("B", c)

SpecFlags == InitFlags /\ [][NextFlags]_vars

\* The directory screen over a connection that fails at times.
NextFlagsFail ==
  \/ FetchChats
  \/ \E t \in Slots : FcDirect(t)
  \/ \E t \in Slots : FcGroup(t)
  \/ \E c \in Listed : ArchiveChat(c)
  \/ \E c \in Listed : UnarchiveChat(c)
  \/ \E c \in Listed : MuteChat(c)
  \/ \E c \in Listed : UnmuteChat(c)
  \/ \E c \in Listed : DeleteChat(c)
  \/ \E c \in Listed, f \in {"is_archived", "is_muted"}, v \in BOOLEAN :
       SetFlagFails(c, f, v)
  \/ \E c \in Listed : DeleteChatFails(c)

SpecFlagsFail == InitFlags /\ [][NextFlagsFail]_vars

\* ------------------------------------------- starting direct conversations
InitStart ==
  /\ EmptyStore
  /\ authUser = NoUser
  /\ dbChats = {}
  /\ dbGroups = {}
  /\ dbMsgs = {}
  /\ now = 0
  /\ nextConv = 1
  /\ nextMsg = 1

\* Users sign in and out of the device and start chats, one startChat call
\* at a time.
NextStart ==
  \/ \E u \in Users : SignIn(u)
  \/ SignOut
  \/ (Idle /\ \E d \in Users : StartChat(d))
  \/ \E t \in Slots : StartChatInsert(t)
  \/ \E t \in Slots : FcDirect(t)
  \/ \E t \in Slots : FcGroup(t)

SpecStart == InitStart /\ [][NextStart]_vars

\* A is signed in and starts chats, a call being made while another is
\* still running.
InitRace ==
  /\ EmptyStore
  /\ authUser = "A"
  /\ dbChats = {}
  /\ dbGroups = {}
  /\ dbMsgs = {}
  /\ now = 0
  /\ nextConv = 1
  /\ nextMsg = 1

NextRace ==
  \/ \E d \in Users : StartChat(d)
  \/ \E t \in Slots : StartChatInsert(t)
  \/ \E t \in Slots : FcDirect(t)
  \/ \E t \in Slots : FcGroup(t)
  \/ Tick

SpecRace == InitRace /\ [][NextRace]_vars

\* ---------------------------------------------------------- fetchMessages
OpenIds == 1..(MaxConvs + 1)

\* line 319, up to the await of getUser.
FetchMessages(chatId) ==
  \E t \in Slots :
    /\ FreeSlot(t)
    /\ tasks' = [tasks EXCEPT ![t] =
                   [IdleTask EXCEPT !.op = "fetchMessages", !.pc = "fm_lookup",
                                    !.id = chatId]]
    /\ isLoading' = TRUE
    /\ error' = NoError
    /\ UNCHANGED <<authUser, backend, realtime, chats, messages, currentChat,
                   subscriptions, history>>

\* .eq('id', chatId).maybeSingle() on chats and on chat_groups.
MaybeSingle(rows) == IF rows = {} THEN NoChat ELSE CHOOSE r \in rows : TRUE

FoundAnyway(chat) == FALSE

\* line 355: if (!chat)
NotFound(chat) == chat = NoChat

\* lines 321-357: getUser, the two lookups, currentChat is set.
FmLookup(t) ==
  /\ tasks[t].pc = "fm_lookup"
  /\ LET directChat ==
           MaybeSingle({c \in dbChats :
                          c.id = tasks[t].id /\ ChatVisible(c, authUser)})
         groupChat ==
           MaybeSingle({g \in dbGroups :
                          g.id = tasks[t].id /\ GroupVisible(g, authUser)})
         chat == IF directChat # NoChat THEN directChat ELSE groupChat
     IN IF authUser = NoUser \/ NotFound(chat)
        THEN /\ error' = IF authUser = NoUser THEN "Not authenticated"
                         ELSE "Chat not found"
             /\ isLoading' = FALSE
             /\ Finish(t)
             /\ UNCHANGED currentChat
        ELSE /\ currentChat' = chat
             /\ tasks' = [tasks EXCEPT ![t].pc = "fm_msgs",
                                        ![t].user = authUser,
                                        ![t].direct_found = (directChat # NoChat),
                                        ![t].group_found = (groupChat # NoChat)]
             /\ UNCHANGED <<isLoading, error>>
  /\ UNCHANGED <<authUser, backend, realtime, chats, messages, subscriptions,
                 history>>

\* lines 360-373: the messages of the conversation, newest first.
MessagesQuery(chatId) ==
  OrderDesc({m \in dbMsgs : m.chat_id = chatId \/ m.group_id = chatId}, CreatedAt)

FmMsgs(t) ==
  /\ tasks[t].pc = "fm_msgs"
  /\ \E rows \in MessagesQuery(tasks[t].id) :
       /\ messages' = rows
       /\ tasks' = [tasks EXCEPT ![t].pc = "fm_rpc",
                                  ![t].seen = {m.id : m \in Range(rows)}]
  /\ UNCHANGED <<authUser, backend, realtime, chats, currentChat, isLoading,
                 error, subscriptions, history>>

AlwaysChatId(t) == tasks[t].id

\* The arguments of the request of lines 376-379.
OpenRpcChat(t) == IF tasks[t].direct_found THEN tasks[t].id ELSE Null

OpenRpcGroup(t) == IF tasks[t].group_found THEN tasks[t].id ELSE Null

\* lines 376-382: mark_messages_as_read runs, then fetchChats is called.
FmRpc(t) ==
  /\ tasks[t].pc = "fm_rpc"
  /\ dbMsgs' = MarkMsgs(dbMsgs, authUser, OpenRpcChat(t), OpenRpcGroup(t))
  /\ dbChats' = MarkChats(dbChats, authUser, OpenRpcChat(t), OpenRpcGroup(t))
  /\ dbGroups' = MarkGroups(dbGroups, authUser, OpenRpcChat(t), OpenRpcGroup(t))
  /\ tasks' = [tasks EXCEPT ![t].pc = "fc_direct"]
  /\ isLoading' = TRUE
  /\ error' = NoError
  /\ UNCHANGED <<authUser, now, nextConv, nextMsg, realtime, chats, messages,
                 currentChat, subscriptions, history>>

\* ------------------------------------------------------------ sendMessage
Body(n) == ToString(n)

\* lines 398-404: the row to insert, from the currentChat read at the call.
SendChatId(chat) == IF Field(chat, "type") = "direct" THEN chat.id ELSE Null

SendGroupId(chat) == IF Field(chat, "type") = "group" THEN chat.id ELSE Null

\* lines 390-396, up to the await of getUser.
SendMessage ==
  /\ nextBody <= MaxSends
  /\ IF currentChat = NoChat
     THEN /\ error' = "No active chat"
          /\ UNCHANGED tasks
     ELSE /\ \E t \in Slots :
               /\ FreeSlot(t)
               /\ tasks' = [tasks EXCEPT ![t] =
                              [IdleTask EXCEPT !.op = "sendMessage",
                                               !.pc = "sm_insert",
                                               !.body = Body(nextBody),
                                               !.chat = currentChat]]
          /\ UNCHANGED error
  /\ nextBody' = nextBody + 1
  /\ UNCHANGED <<authUser, backend, realtime, chats, messages, currentChat,
                 isLoading, subscriptions, ret>>

\* lines 395-426: getUser, the insert under the policy of chat_messages; the
\* returned row is put first in store.messages and fetchChats is called; a
\* rejected insert sets the error.
SmInsert(t) ==
  /\ tasks[t].pc = "sm_insert"
  /\ LET row == MessageRow(nextMsg, SendChatId(tasks[t].chat),
                           SendGroupId(tasks[t].chat), authUser, tasks[t].body)
     IN IF authUser = NoUser \/ ~SendPolicy(row, authUser)
        THEN /\ error' = IF authUser = NoUser THEN "Not authenticated"
                         ELSE "violates row-level security policy"
             /\ Finish(t)
             /\ UNCHANGED <<backend, events, messages, isLoading>>
        ELSE /\ nextMsg <= MaxMsgs
             /\ InsertRow(row)
             /\ messages' = <<row>> \o messages
             /\ tasks' = [tasks EXCEPT ![t].pc = "fc_direct",
                                        ![t].user = authUser]
             /\ isLoading' = TRUE
             /\ error' = NoError
             /\ UNCHANGED <<now, nextConv>>
  /\ UNCHANGED <<authUser, channels, nextSid, chats, currentChat,
                 subscriptions, history>>

\* ----------------------------------------------- subscribeToMessages, cleanup
\* subscriptions.forEach(sub => sub.unsubscribe())
KeepAll(held) == channels

Unsubscribed(held) == {ch \in channels : ch.sid \notin Range(held)}

\* The store holds a subscription made for conv.
Subscribed(conv) ==
  \E ch \in channels : ch.chatId = conv /\ ch.sid \in Range(subscriptions)

\* lines 432-476
SubscribeToMessages(chatId) ==
  /\ nextSid <= MaxSubs
  /\ channels' = Unsubscribed(subscriptions) \cup
                  {[sid |-> nextSid, chatId |-> chatId]}
  /\ subscriptions' = <<nextSid>>
  /\ nextSid' = nextSid + 1
  /\ UNCHANGED <<authUser, backend, events, chats, messages, currentChat,
                 isLoading, error, tasks, history>>

\* lines 478-486
Cleanup ==
  /\ channels' = Unsubscribed(subscriptions)
  /\ subscriptions' = <<>>
  /\ currentChat' = NoChat
  /\ messages' = <<>>
  /\ UNCHANGED <<authUser, backend, events, nextSid, chats, isLoading, error,
                 tasks, history>>

\* -------------------------------------------- the live INSERT handler
\* An INSERT notification reaches the client: the callback of a channel still
\* subscribed starts (lines 448-456, up to the await of the sender lookup),
\* with the inserted row as the `data` of its payload, as line 449 takes it;
\* a notification for a channel since unsubscribed is dropped.
Deliver ==
  /\ events # <<>>
  /\ events' = Tail(events)
  /\ IF \E ch \in channels : ch.sid = Head(events).sid
     THEN \E t \in Slots :
            /\ FreeSlot(t)
            /\ tasks' = [tasks EXCEPT ![t] =
                 [IdleTask EXCEPT
                    !.op = "handler", !.pc = "h_apply",
                    !.msg = Head(events).data,
                    !.id = (CHOOSE ch \in channels :
                              ch.sid = Head(events).sid).chatId]]
     ELSE UNCHANGED tasks
  /\ UNCHANGED <<authUser, backend, channels, nextSid, store, history>>

\* lines 458-461: the sender lookup resolves, the message is put first.
HApply(t) ==
  /\ tasks[t].pc = "h_apply"
  /\ messages' = <<tasks[t].msg>> \o messages
  /\ tasks' = [tasks EXCEPT ![t].pc = "h_rpc"]
  /\ UNCHANGED <<authUser, backend, realtime, chats, currentChat, isLoading,
                 error, subscriptions, history>>

\* line 465
HandlerMarks(t) == authUser # NoUser /\ tasks[t].msg.sender_id # authUser

\* lines 463-470: getUser; for a message of another sender
\* mark_messages_as_read({ p_chat_id: chatId }) runs; fetchChats is called.
HRpc(t) ==
  /\ tasks[t].pc = "h_rpc"
  /\ IF HandlerMarks(t)
     THEN /\ dbMsgs' = MarkMsgs1(dbMsgs, authUser, tasks[t].id)
          /\ dbChats' = MarkChats1(dbChats, authUser, tasks[t].id)
     ELSE UNCHANGED <<dbMsgs, dbChats>>
  /\ tasks' = [tasks EXCEPT ![t].pc = "fc_direct", ![t].viewer = authUser]
  /\ isLoading' = TRUE
  /\ error' = NoError
  /\ UNCHANGED <<authUser, dbGroups, now, nextConv, nextMsg, realtime, chats,
                 messages, currentChat, subscriptions, history>>

\* ------------------------------------------------------- the chat screen
\* The viewer A is signed in; the backend holds a direct chat of A and B and
\* a group of theirs.
InitChat ==
  /\ EmptyStore
  /\ authUser = "A"
  /\ now = 0
  /\ dbChats = {NewChatRow(1, "A", "B")}
  /\ dbGroups = {GroupRow(2)}
  /\ dbMsgs = {}
  /\ nextConv = 3
  /\ nextMsg = 1

\* Opening conversations while messages arrive.
NextOpen ==
  \/ \E c \in OpenIds : FetchMessages(c)
  \/ \E t \in Slots : FmLookup(t)
  \/ \E t \in Slots : FmMsgs(t)
  \/ \E t \in Slots : FmRpc(t)
  \/ \E t \in Slots : FcDirect(t)
  \/ \E t \in Slots : FcGroup(t)
  \/ \E u \in Users, c \in ConvIds : PeerInsert(u, c)

SpecOpen == InitChat /\ [][NextOpen]_vars

\* The chat screen: the viewer opens conversations one call at a time,
\* subscribes, sends, receives what B sends, and leaves.
NextLive ==
  \/ (Idle /\ \E c \in ConvIds : FetchMessages(c))
  \/ \E t \in Slots : FmLookup(t)
  \/ \E t \in Slots : FmMsgs(t)
  \/ \E t \in Slots : FmRpc(t)
  \/ \E t \in Slots : FcDirect(t)
  \/ \E t \in Slots : FcGroup(t)
  \/ SendMessage
  \/ \E t \in Slots : SmInsert(t)
  \/ \E c \in ConvIds : SubscribeToMessages(c)
  \/ Cleanup
  \/ Deliver
  \/ \E t \in Slots : HApply(t)
  \/ \E t \in Slots : HRpc(t)
  \/ \E c \in ConvIds : PeerInsert("B", c)

SpecLive == InitChat /\ [][NextLive]_vars

\* The open conversation while B's messages arrive as the clock advances.
NextOrder ==
  \/ (Idle /\ \E c \in ConvIds : FetchMessages(c))
  \/ \E t \in Slots : FmLookup(t)
  \/ \E t \in Slots : FmMsgs(t)
  \/ \E t \in Slots : FmRpc(t)
  \/ \E t \in Slots : FcDirect(t)
  \/ \E t \in Slots : FcGroup(t)
  \/ \E c \in ConvIds : SubscribeToMessages(c)
  \/ Deliver
  \/ \E t \in Slots : HApply(t)
  \/ \E t \in Slots : HRpc(t)
  \/ \E c \in ConvIds : PeerInsert("B", c)
  \/ Tick

SpecOrder == InitChat /\ [][NextOrder]_vars

\* The viewer opens a conversation, subscribes, sends one message and then
\* makes no further call: what runs after the send was running during it.
Unsent == nextBody = 1

SendPending == \E t \in Slots : tasks[t].op = "sendMessage"

NextSend ==
  \/ (Unsent /\ Idle /\ \E c \in ConvIds : FetchMessages(c))
  \/ \E t \in Slots : FmLookup(t)
  \/ \E t \in Slots : FmMsgs(t)
  \/ \E t \in Slots : FmRpc(t)
  \/ \E t \in Slots : FcDirect(t)
  \/ \E t \in Slots : FcGroup(t)
  \/ (Unsent /\ \E c \in ConvIds : SubscribeToMessages(c))
  \/ (Unsent /\ currentChat # NoChat /\ SendMessage)
  \/ \E t \in Slots : SmInsert(t)
  \/ ((Unsent \/ SendPending) /\ Deliver)
  \/ \E t \in Slots : HApply(t)
  \/ \E t \in Slots : HRpc(t)
  \/ \E c \in ConvIds : PeerInsert("B", c)

SpecSend == InitChat /\ [][NextSend]_vars

\* The open conversation while A's other sessions and B send messages.
NextRead ==
  \/ (Idle /\ \E c \in ConvIds : FetchMessages(c))
  \/ \E t \in Slots : FmLookup(t)
  \/ \E t \in Slots : FmMsgs(t)
  \/ \E t \in Slots : FmRpc(t)
  \/ \E t \in Slots : FcDirect(t)
  \/ \E t \in Slots : FcGroup(t)
  \/ (Idle /\ \E c \in ConvIds : SubscribeToMessages(c))
  \/ Deliver
  \/ \E t \in Slots : HApply(t)
  \/ \E t \in Slots : HRpc(t)
  \/ \E u \in Users, c \in ConvIds : PeerInsert(u, c)

SpecRead == InitChat /\ [][NextRead]_vars

\* One subscription, made before any message exists, and the messages then
\* inserted in the conversation subscribed to. Notifications are delivered
\* and a handler that has started runs to its end.
NextFeed ==
  \/ (subscriptions = <<>> /\ \E c \in ConvIds : SubscribeToMessages(c))
  \/ \E c \in ConvIds : (Subscribed(c) /\ PeerInsert("B", c))
  \/ \E c \in ConvIds : (Subscribed(c) /\ GroupInsert("B", c))
  \/ Deliver
  \/ \E t \in Slots : HApply(t)
  \/ \E t \in Slots : HRpc(t)
  \/ \E t \in Slots : FcDirect(t)
  \/ \E t \in Slots : FcGroup(t)
  \/ Tick

FairFeed ==
  /\ WF_vars(Deliver)
  /\ \A t \in Slots : WF_vars(HApply(t)) /\ WF_vars(HRpc(t))
                       /\ WF_vars(FcDirect(t)) /\ WF_vars(FcGroup(t))

SpecFeed == InitChat /\ [][NextFeed]_vars /\ FairFeed

\* The chat screen over a backend that holds a message of B's already marked
\* read (by a role that row security does not bind): conversations are
\* opened, messages sent and received.
InitHistory ==
  /\ EmptyStore
  /\ authUser = "A"
  /\ now = 0
  /\ dbChats = {NewChatRow(1, "A", "B")}
  /\ dbGroups = {GroupRow(2)}
  /\ dbMsgs = {[MessageRow(1, 1, Null, "B", "hi") EXCEPT !.is_read = TRUE]}
  /\ nextConv = 3
  /\ nextMsg = 2

NextHistory ==
  \/ (Idle /\ \E c \in ConvIds : FetchMessages(c))
  \/ \E t \in Slots : FmLookup(t)
  \/ \E t \in Slots : FmMsgs(t)
  \/ \E t \in Slots : FmRpc(t)
  \/ \E t \in Slots : FcDirect(t)
  \/ \E t \in Slots : FcGroup(t)
  \/ (Idle /\ SendMessage)
  \/ \E t \in Slots : SmInsert(t)
  \/ (Idle /\ \E c \in ConvIds : SubscribeToMessages(c))
  \/ Deliver
  \/ \E t \in Slots : HApply(t)
  \/ \E t \in Slots : HRpc(t)
  \/ \E u \in Users, c \in ConvIds : PeerInsert(u, c)

SpecHistory == InitHistory /\ [][NextHistory]_vars

\* create.tsx 355-361, the effect of the chat screen for conversation id:
\* fetchMessages(id) runs up to its first await, then
\* subscribeToMessages(id), in one turn of the event loop.
Mount(id) ==
  /\ nextSid <= MaxSubs
  /\ \E t \in Slots :
       /\ FreeSlot(t)
       /\ tasks' = [tasks EXCEPT ![t] =
                      [IdleTask EXCEPT !.op = "fetchMessages",
                                       !.pc = "fm_lookup", !.id = id]]
  /\ isLoading' = TRUE
  /\ error' = NoError
  /\ channels' = Unsubscribed(subscriptions) \cup
                  {[sid |-> nextSid, chatId |-> id]}
  /\ subscriptions' = <<nextSid>>
  /\ nextSid' = nextSid + 1
  /\ UNCHANGED <<authUser, backend, events, chats, messages, currentChat,
                 history>>

\* The viewer enters a conversation, leaves it (create.tsx 363, the effect's
\* cleanup) and enters one again, while B sends messages.
NextSwitch ==
  \/ (subscriptions = <<>> /\ \E c \in ConvIds : Mount(c))
  \/ (subscriptions # <<>> /\ Cleanup)
  \/ \E t \in Slots : FmLookup(t)
  \/ \E t \in Slots : FmMsgs(t)
  \/ \E t \in Slots : FmRpc(t)
  \/ \E t \in Slots : FcDirect(t)
  \/ \E t \in Slots : FcGroup(t)
  \/ Deliver
  \/ \E t \in Slots : HApply(t)
  \/ \E t \in Slots : HRpc(t)
  \/ \E c \in ConvIds : PeerInsert("B", c)

SpecSwitch == InitChat /\ [][NextSwitch]_vars

\* The device: A signs in and out while the store is used, one call of the
\* screen at a time: a chat with B is started and opened, one message is
\* sent and one received over one subscription. No conversation exists at
\* first.
InitAuth ==
  /\ EmptyStore
  /\ authUser = "A"
  /\ now = 0
  /\ dbChats = {}
  /\ dbGroups = {}
  /\ dbMsgs = {}
  /\ nextConv = 1
  /\ nextMsg = 1

NextAuth ==
  \/ SignIn("A")
  \/ SignOut
  \/ (Idle /\ \E c \in ConvIds : FetchMessages(c))
  \/ \E t \in Slots : FmLookup(t)
  \/ \E t \in Slots : FmMsgs(t)
  \/ \E t \in Slots : FmRpc(t)
  \/ \E t \in Slots : FcDirect(t)
  \/ \E t \in Slots : FcGroup(t)
  \/ (Unsent /\ Idle /\ SendMessage)
  \/ \E t \in Slots : SmInsert(t)
  \/ (Idle /\ StartChat("B"))
  \/ \E t \in Slots : StartChatInsert(t)
  \/ \E ids \in MemberLists : CreateGroupChat(ids)
  \/ (Idle /\ subscriptions = <<>> /\ \E c \in ConvIds : SubscribeToMessages(c))
  \/ Deliver
  \/ \E t \in Slots : HApply(t)
  \/ \E t \in Slots : HRpc(t)
  \/ (dbMsgs = {} /\ \E c \in ConvIds : PeerInsert("B", c))

SpecAuth == InitAuth /\ [][NextAuth]_vars

\* ================================================================= claims
MsgsOf(msgs, conv) == {m \in msgs : m.chat_id = conv \/ m.group_id = conv}

Leaves(t, pc) == tasks[t].pc = pc /\ tasks'[t].pc # pc

Pair(c) == {c.user_id, c.doctor_id}

IdOrder(s) == [i \in DOMAIN s |-> s[i].id]

\* C2: startChat is idempotent and symmetric in the pair: the backend never
\* holds two direct chats of the same unordered pair of users, and the id a
\* call of user U with peer P returns is the id of the chat of {U, P}.
C2_OneChatPerPair ==
  /\ \A c1, c2 \in dbChats : Pair(c1) = Pair(c2) => c1 = c2
  /\ (ret.status = "ok" /\ ret.user # ret.peer) =>
       \E c \in dbChats : c.id = ret.val /\ Pair(c) = {ret.user, ret.peer}

\* C3: the unread_count fetchChats gives a conversation is the number of
\* messages of the conversation, in the snapshot the call read, whose sender
\* is not the viewer and whose read flag is false.
C3_UnreadCountOfOthersUnread ==
  [][\A t \in Slots :
       Leaves(t, "fc_group") =>
         \A i \in DOMAIN chats' :
           chats'[i].unread_count =
             Cardinality({m \in MsgsOf(tasks[t].snap, chats'[i].id) :
                            m.sender_id # tasks[t].user /\ ~m.is_read})]_vars

\* C9: store.chats is sorted descending by last_message_at, after fetchChats
\* and after every archive, unarchive, mute, unmute and delete.
C9_ChatsSortedByRecency ==
  \A i \in 1..(Len(chats) - 1) :
    chats[i].last_message_at >= chats[i + 1].last_message_at

\* C9 witness: a fetched directory whose group is more recent than its
\* direct chat, after an archive of the direct chat.
C9_Witness ==
  /\ Len(chats) = 2
  /\ chats[1].type = "group"
  /\ chats[2].type = "direct"
  /\ chats[1].last_message_at > chats[2].last_message_at
  /\ chats[2].is_archived

\* C10: two fetchChats calls that read the same backend data give store.chats
\* the same order of ids, whatever the order the backend returned the rows in.
C10_SameDataSameOrder ==
  \A t1, t2 \in Slots :
    (/\ tasks[t1].pc = "fc_group"
     /\ tasks[t2].pc = "fc_group"
     /\ tasks[t1].user = tasks[t2].user
     /\ tasks[t1].snap = tasks[t2].snap
     /\ {r.row : r \in Range(tasks[t1].direct)} =
          {r.row : r \in Range(tasks[t2].direct)})
    => \A g1, g2 \in GroupQuery(tasks[t1].user) :
         IdOrder(MergeChats(tasks[t1].direct, g1, tasks[t1].user)) =
           IdOrder(MergeChats(tasks[t2].direct, g2, tasks[t2].user))

C4_RowNamesTheOpenConversation ==
  \A t \in Slots :
    tasks[t].pc = "sm_insert" =>
      LET chat == tasks[t].chat
      IN /\ (SendChatId(chat) # Null) # (SendGroupId(chat) # Null)
         /\ "doctor_id" \in DOMAIN chat => SendChatId(chat) = chat.id
         /\ "members" \in DOMAIN chat => SendGroupId(chat) = chat.id

\* C5: once the conversation of a subscription is closed or switched away
\* from, a late INSERT event of it is not put in store.messages and makes no
\* mark_messages_as_read request.
C5_LateEventNotApplied ==
  [][\A t \in Slots :
       (/\ tasks[t].op = "handler"
        /\ currentChat.id # tasks[t].id
        /\ ~Subscribed(tasks[t].id))
       => /\ Leaves(t, "h_apply") => messages' = messages
          /\ Leaves(t, "h_rpc") => ~HandlerMarks(t)]_vars

\* C6: the store holds at most one subscription, it is the one the latest
\* subscribeToMessages call made, and the backend holds no subscription the
\* store has let go of.
C6_OneLiveSubscription ==
  /\ Len(subscriptions) <= 1
  /\ {ch.sid : ch \in channels} = Range(subscriptions)
  /\ subscriptions # <<>> => subscriptions = <<nextSid - 1>>

\* C6 witness: subscribeToMessages(2) was called while the subscription of
\* conversation 1 was live.
C6_Witness ==
  /\ subscriptions = <<2>>
  /\ channels = {[sid |-> 2, chatId |-> 2]}

\* mark_messages_as_read run once by uid, on a direct chat or on a group.
MarkRead(db, uid, p_chat_id, p_group_id) ==
  [msgs |-> MarkMsgs(db.msgs, uid, p_chat_id, p_group_id),
   chats |-> MarkChats(db.chats, uid, p_chat_id, p_group_id),
   groups |-> MarkGroups(db.groups, uid, p_chat_id, p_group_id)]

Database == [msgs |-> dbMsgs, chats |-> dbChats, groups |-> dbGroups]

\* C7: mark_messages_as_read is idempotent: run twice in a row on the same
\* conversation, by any user, it leaves the backend as one run does.
C7_MarkReadIdempotent ==
  \A uid \in Users, p \in ConvIds :
    /\ MarkRead(MarkRead(Database, uid, p, Null), uid, p, Null) =
         MarkRead(Database, uid, p, Null)
    /\ MarkRead(MarkRead(Database, uid, Null, p), uid, Null, p) =
         MarkRead(Database, uid, Null, p)

\* C7 witness: fetchMessages has run the function on a chat that holds two
\* messages, so a run changed the backend: the counter went from 2 to 0.
C7_Witness ==
  \E t \in Slots, c \in dbChats :
    /\ tasks[t].op = "fetchMessages"
    /\ tasks[t].pc = "fc_direct"
    /\ tasks[t].id = c.id
    /\ c.unread_count = 0
    /\ Cardinality(MsgsOf(dbMsgs, c.id)) = 2
    /\ tasks[t].seen = {m.id : m \in MsgsOf(dbMsgs, c.id)}

\* C8: when fetchMessages(X) ends without error and the backend holds no
\* message of X but those the call read, every message of X of another
\* sender is read and every entry of X in store.chats has unread_count 0.
C8_OpenedConversationIsRead ==
  [][\A t \in Slots :
       (/\ tasks[t].op = "fetchMessages"
        /\ Leaves(t, "fc_group")
        /\ error' = NoError
        /\ {m.id : m \in MsgsOf(dbMsgs', tasks[t].id)} \subseteq tasks[t].seen)
       => /\ \A m \in MsgsOf(dbMsgs', tasks[t].id) :
               m.sender_id # tasks[t].user => m.is_read
          /\ \A i \in DOMAIN chats' :
               chats'[i].id = tasks[t].id => chats'[i].unread_count = 0]_vars

\* C11: store.messages is ordered newest-first by created_at in every state:
\* the initial fetch sets the order, and sendMessage and the live INSERT
\* events keep it, two events being placed in the order the backend
\* reported them.
C11_TimelineNewestFirst ==
  \A i \in 1..(Len(messages) - 1) :
    messages[i].created_at >= messages[i + 1].created_at

\* C12: send appends optimistically: while the insert of a sendMessage call
\* is pending, its message is already in store.messages, as the newest entry.
C12_PendingSendIsVisible ==
  \A t \in Slots :
    tasks[t].pc = "sm_insert" =>
      /\ messages # <<>>
      /\ messages[1].content = tasks[t].body

\* C13: a sendMessage whose insert fails is never dropped silently: once the
\* call and every call that ran during it are over, the timeline holds an
\* entry for the message or store.error is set (sendMessage's promise never
\* rejects).
C13_FailedSendIsSignalled ==
  (~Unsent /\ Idle) =>
    \/ error # NoError
    \/ \E i \in DOMAIN messages : messages[i].content = Body(1)

Visible(id, uid) ==
  \/ \E c \in dbChats : c.id = id /\ ChatVisible(c, uid)
  \/ \E g \in dbGroups : g.id = id /\ GroupVisible(g, uid)

\* C14: fetchMessages(id), for an id that is no direct chat and no group
\* visible to the signed-in caller, ends at its lookup: store.error is 'Chat
\* not found', isLoading is false, currentChat and messages are as they were,
\* and no messages query and no mark_messages_as_read request follows (the
\* call is over and the backend is untouched).
C14_UnknownIdIsNotFound ==
  [][\A t \in Slots :
       (/\ Leaves(t, "fm_lookup")
        /\ authUser # NoUser
        /\ ~Visible(tasks[t].id, authUser))
       => /\ error' = "Chat not found"
          /\ isLoading' = FALSE
          /\ currentChat' = currentChat
          /\ messages' = messages
          /\ tasks'[t] = IdleTask
          /\ UNCHANGED <<dbChats, dbGroups, dbMsgs>>]_vars

\* C14 witness: with chat 1 open and a message of it in the timeline, a
\* fetchMessages of an unknown id has ended in 'Chat not found'.
C14_Witness ==
  /\ Idle
  /\ error = "Chat not found"
  /\ ~isLoading
  /\ currentChat # NoChat
  /\ messages # <<>>

NoBackendWrite == UNCHANGED <<dbChats, dbGroups, dbMsgs>>

NotAuthenticated == error' = "Not authenticated"

\* The handler run of task t ends, its own getUser having resolved nobody.
AnonymousHandlerEnds(t) ==
  /\ tasks[t].op = "handler"
  /\ tasks[t].pc \in {"fc_direct", "fc_group"}
  /\ tasks[t].viewer = NoUser
  /\ tasks'[t].op = "idle"

\* C15: an operation whose getUser resolves no identity writes nothing to
\* the backend and surfaces 'Not authenticated': fetchMessages (so that its
\* mark-as-read never runs), sendMessage, startChat and createGroupChat (both
\* also rejecting), and the live handler at its mark-as-read, whose run ends
\* with the error set.
C15_NoIdentityNoWrite ==
  [][/\ \A t \in Slots :
          (authUser = NoUser /\ (Leaves(t, "fm_lookup") \/ Leaves(t, "sm_insert")))
            => NoBackendWrite /\ NotAuthenticated /\ tasks'[t] = IdleTask
     /\ \A d \in Users :
          (authUser = NoUser /\ StartChat(d))
            => NoBackendWrite /\ NotAuthenticated /\ ret'.status = "rejected"
     /\ \A ids \in MemberLists :
          (authUser = NoUser /\ CreateGroupChat(ids))
            => NoBackendWrite /\ NotAuthenticated /\ ret'.status = "rejected"
     /\ \A t \in Slots :
          (authUser = NoUser /\ Leaves(t, "h_rpc")) => NoBackendWrite
     /\ \A t \in Slots : AnonymousHandlerEnds(t) => NotAuthenticated]_vars

\* The conversations of a type that the directory shows and chats' lacks.
Omitted(type) ==
  \E i \in DOMAIN chats :
    /\ chats[i].type = type
    /\ \A j \in DOMAIN chats' : chats'[j].id # chats[i].id

\* C16: when the query of the direct chats or of the groups failed in a
\* fetchChats call, the call ends with store.error set, and store.chats is
\* not replaced by a list that silently lacks the conversations of the
\* failed query.
C16_FailedQuerySurfaced ==
  [][\A t \in Slots :
       /\ (tasks[t].op = "fetchChats" /\ tasks[t].direct_error
              /\ Leaves(t, "fc_group"))
            => error' # NoError /\ ~(Omitted("direct") /\ error' = NoError)
       /\ (tasks[t].op = "fetchChats" /\ FcGroupFails(t))
            => error' # NoError /\ ~(Omitted("group") /\ error' = NoError)]_vars

\* Exactly one row for each of the ids and for the creator, the creator's
\* with role admin and the others' with role member.
OneRowEach(rows, memberIds, uid) ==
  /\ {r.user_id : r \in rows} = Range(memberIds) \cup {uid}
  /\ Cardinality(rows) = Cardinality(Range(memberIds) \cup {uid})
  /\ \A r \in rows : r.role = (IF r.user_id = uid THEN "admin" ELSE "member")

\* C17: a createGroupChat(name, memberIds) call of a signed-in creator adds
\* a group whose membership rows are exactly one per element of
\* memberIds and the creator, the creator as admin and the others as
\* members, and returns the id of that group.
C17_GroupCreatedWithMembers ==
  [][\A ids \in MemberLists :
       (authUser # NoUser /\ CreateGroupChat(ids)) =>
         \E g \in dbGroups' \ dbGroups :
           /\ ret'.status = "ok"
           /\ ret'.val = g.id
           /\ OneRowEach(MemberRows(g.id, ids, authUser), ids, authUser)
           /\ g.members = {r.user_id : r \in MemberRows(g.id, ids, authUser)}]_vars

Detached == subscriptions = <<>> /\ currentChat = NoChat /\ messages = <<>>

\* C18: a cleanup call leaves no subscription held, no conversation open
\* and no message, no channel of a subscription it held stays subscribed,
\* and it raises no error; with nothing attached it changes nothing, so a
\* second cleanup changes nothing.
C18_CleanupDetaches ==
  [][Cleanup =>
       /\ Detached'
       /\ \A ch \in channels' : ch.sid \notin Range(subscriptions)
       /\ error' = error
       /\ (Detached => UNCHANGED vars)]_vars

\* A conversation was opened and subscribed to, and cleanup has run.
C18_Witness ==
  /\ nextSid > 1
  /\ chats # <<>>
  /\ Detached
  /\ channels = {}

\* The conversation c exists in the backend, as a chat or as a group.
Exists(c) == (\E r \in dbChats : r.id = c) \/ (\E g \in dbGroups : g.id = c)

\* The flag of the directory entry of c is the one the backend stores.
FlagAgrees(c, field) ==
  \A i \in DOMAIN chats :
    chats[i].id = c =>
      /\ \A r \in dbChats : r.id = c => r[field] = chats[i][field]
      /\ \A g \in dbGroups : g.id = c => g[field] = chats[i][field]

\* C19: after archiveChat, unarchiveChat, muteChat, unmuteChat or deleteChat
\* of a conversation shown in the directory, a direct chat or a group, the
\* flag of its entry is the one the backend stores, and the entry is gone
\* only if the conversation no longer exists in the backend.
C19_DirectoryAgreesWithBackend ==
  [][\A c \in Listed :
       /\ (ArchiveChat(c) \/ UnarchiveChat(c)) => FlagAgrees(c, "is_archived")'
       /\ (MuteChat(c) \/ UnmuteChat(c)) => FlagAgrees(c, "is_muted")'
       /\ DeleteChat(c) => (c \in Listed' \/ ~Exists(c)')]_vars

\* The unread count the directory of u shows for the direct chat c.
DirectoryUnread(u, c) ==
  UNION {{ProcessDirect(rows[i], u).unread_count :
            i \in {j \in DOMAIN rows : rows[j].row.id = c}} :
         rows \in DirectQuery(u)}

C21_HandlerMarksOnlyOpenConversation ==
  [][\A t \in Slots :
       (Leaves(t, "h_rpc") /\ HandlerMarks(t)) =>
         /\ tasks[t].msg.sender_id # authUser
         /\ currentChat.id = tasks[t].id]_vars

InTimeline(id) == \E i \in DOMAIN messages : messages[i].id = id

\* C22: a message inserted in the conversation subscribed to, of a direct
\* chat (chat_id) or of a group (group_id, chat_id null), is eventually put
\* in the timeline by the handler.
C22_InsertedIsEventuallyShown ==
  \A n \in 1..MaxMsgs :
    (\E m \in dbMsgs : m.id = n) ~> InTimeline(n)

\* C23: a startChat call that ends, also one that ran while another call
\* for the same pair did, returns the id of the one chat of the pair, does
\* not reject and leaves no error.
C23_DuplicateStartResolved ==
  [][\A t \in Slots :
       (tasks[t].op = "startChat" /\ tasks'[t].op = "idle") =>
         /\ ret'.status = "ok"
         /\ error' = NoError
         /\ \E c \in dbChats' :
              /\ c.id = ret'.val
              /\ Pair(c) = {tasks[t].user, tasks[t].peer}
              /\ \A c2 \in dbChats' : Pair(c2) = Pair(c) => c2 = c]_vars

\* A request with arguments p_chat_id, p_group_id (Null: null or absent) for
\* conversation id names the conversation by the one argument of its kind.
SingleVariant(p_chat_id, p_group_id, id) ==
  \/ /\ p_chat_id = id /\ p_group_id = Null
     /\ \E c \in dbChats : c.id = id
  \/ /\ p_chat_id = Null /\ p_group_id = id
     /\ \E g \in dbGroups : g.id = id

\* C24: every mark_messages_as_read request, that of fetchMessages (lines
\* 376-379) and that of the live handler (line 466, p_chat_id alone), has
\* exactly one of p_chat_id, p_group_id populated, the one of the kind of the
\* conversation marked.
C24_MarkRequestSingleVariant ==
  [][\A t \in Slots :
       /\ Leaves(t, "fm_rpc") =>
            SingleVariant(OpenRpcChat(t), OpenRpcGroup(t), tasks[t].id)
       /\ (Leaves(t, "h_rpc") /\ HandlerMarks(t)) =>
            SingleVariant(tasks[t].id, Null, tasks[t].id)]_vars

\* fetchMessages has sent its request for a group while a handler has sent
\* its own for a message of the other party.
C24_Witness ==
  /\ \E t \in Slots : /\ tasks[t].op = "fetchMessages"
                       /\ tasks[t].pc = "fc_direct"
                       /\ tasks[t].group_found
  /\ \E t \in Slots : /\ tasks[t].op = "handler"
                       /\ tasks[t].pc = "fc_direct"
                       /\ tasks[t].viewer # NoUser
                       /\ tasks[t].msg.sender_id # tasks[t].viewer

\* C25: in every step a message whose read flag is true keeps it true, and
\* a message that the step creates has read flag false.
C25_ReadFlagOnlyRises ==
  [][/\ \A m \in dbMsgs :
          m.is_read => \E n \in dbMsgs' : n.id = m.id /\ n.is_read
     /\ \A n \in dbMsgs' :
          (\A m \in dbMsgs : m.id # n.id) => ~n.is_read]_vars

\* fetchMessages has sent its mark-as-read request for a chat that holds a
\* read message and one created since.
C25_Witness ==
  \E t \in Slots :
    /\ tasks[t].op = "fetchMessages"
    /\ tasks[t].pc = "fc_direct"
    /\ \E m \in dbMsgs : m.is_read /\ m.id \in tasks[t].seen
    /\ \E m \in dbMsgs : ~m.is_read /\ m.id \in tasks[t].seen

\* C26: once every running operation is over, the open conversation and
\* the timeline are those of the conversation subscribed to, and with no
\* subscription held (after cleanup) there is no open conversation and no
\* message.
C26_OpenTimelineSubscriptionAgree ==
  Idle =>
    IF subscriptions = <<>>
    THEN currentChat = NoChat /\ messages = <<>>
    ELSE \A c \in ConvIds :
           Subscribed(c) =>
             /\ currentChat.id = c
             /\ \A i \in DOMAIN messages :
                  messages[i].chat_id = c \/ messages[i].group_id = c

\* C27: no two entries of store.messages have the same message id.
C27_TimelineIdsDistinct ==
  \A i, j \in DOMAIN messages : messages[i].id = messages[j].id => i = j

\* The directories that a fetchChats of uid reading the present backend
\* can produce.
DirectoryOf(uid) ==
  {MergeChats(d, g, uid) : d \in DirectQuery(uid), g \in GroupQuery(uid)}

UpToDate == chats \in DirectoryOf(authUser)

\* C28: a fetchChats call that ends does not replace a directory that
\* reflects the present backend by one that does not.
C28_StaleResponseNeverWins ==
  [][\A t \in Slots :
       (tasks[t].pc = "fc_group" /\ tasks'[t].op = "idle" /\ UpToDate)
         => UpToDate']_vars

C30_FailedEditLeavesDirectory ==
  [][\A c \in Listed :
       (\/ \E f \in {"is_archived", "is_muted"}, v \in BOOLEAN :
             SetFlagFails(c, f, v)
        \/ DeleteChatFails(c))
         => chats' = chats /\ error' # NoError]_vars

\* A request has failed for a conversation of a loaded directory whose
\* entries were edited before.
C30_Witness ==
  /\ error = "request failed"
  /\ \E i \in DOMAIN chats : chats[i].is_archived \/ chats[i].is_muted

====
